---------------------------- MODULE Spec2Model ----------------------------
(***************************************************************************)
(* The voice assistant of src/src/components/VoiceAssistant.tsx as a state *)
(* machine: the React state of the component, the refs of the two hooks    *)
(* (useSpeechRecognition, useSpeechSynthesis), the browser objects they    *)
(* drive (SpeechRecognition instances, speechSynthesis, the Audio element),*)
(* and everything in flight (timers, promises, pending events).            *)
(*                                                                         *)
(* A callback created by useCallback reads the values of the render that   *)
(* created it.  The model keeps those values with every callback that is   *)
(* held by something outside React (a recognizer's onresult, an            *)
(* utterance's onend, a pending promise), so a stale closure is stale in   *)
(* the model too.  React commits a render and runs its effects after every *)
(* handler that changed state, before the next event is handled.           *)
(***************************************************************************)
EXTENDS Naturals, Sequences, FiniteSets, Bags, TLC

(***************************************************************************)
(* Bounds of the model.                                                    *)
(***************************************************************************)
MaxTimers == 2
MaxPending == 1
MaxDispatches == 2
MaxTurns == 2
MaxLen == 3
MaxStore == 3
MaxLimit == 3

(***************************************************************************)
(* Strings are sequences of one-character strings.                         *)
(***************************************************************************)
UpperCase == <<"A", "B", "D", "E", "F", "I", "L", "O", "P", "R", "T", "V">>
LowerCase == <<"a", "b", "d", "e", "f", "i", "l", "o", "p", "r", "t", "v">>

toLowerCaseChar(c) ==
  IF \E i \in 1..Len(UpperCase) : UpperCase[i] = c
  THEN LowerCase[CHOOSE i \in 1..Len(UpperCase) : UpperCase[i] = c]
  ELSE c

toLowerCase(s) == [i \in 1..Len(s) |-> toLowerCaseChar(s[i])]

RECURSIVE trimStart(_)
trimStart(s) ==
  IF s # <<>> /\ Head(s) = " " THEN trimStart(Tail(s)) ELSE s

RECURSIVE trimEnd(_)
trimEnd(s) ==
  IF s # <<>> /\ s[Len(s)] = " " THEN trimEnd(SubSeq(s, 1, Len(s) - 1)) ELSE s

trim(s) == trimEnd(trimStart(s))

includes(s, sub) ==
  \E i \in 0..Len(s) :
    /\ i + Len(sub) <= Len(s)
    /\ SubSeq(s, i + 1, i + Len(sub)) = sub

\* "parar de falar"
StopPhrase ==
  <<"p", "a", "r", "a", "r", " ", "d", "e", " ", "f", "a", "l", "a", "r">>

\* The transcripts the recognizer delivers in the controller's specification:
\* " Oi ATIVAR " and "Parar de Falar".
TActivate == <<" ", "O", "i", " ", "A", "T", "I", "V", "A", "R", " ">>
TStop ==
  <<"P", "a", "r", "a", "r", " ", "d", "e", " ", "F", "a", "l", "a", "r">>
Transcripts == {TActivate, TStop}

\* The activation phrase of the settings row: "Ativar".
PhraseAtivar == <<"A", "t", "i", "v", "a", "r">>

(***************************************************************************)
(* State.                                                                  *)
(***************************************************************************)
VARIABLES
  voiceModel,            \* prop: "browser" | "openai-tts" | "gemini-tts"
  openAiApiKey,          \* prop: TRUE when a key is configured, FALSE for ""
  activationPhrase,      \* prop
  model,                 \* prop: the chat model, "gpt-4o-mini" | "gemini-pro"
  micPermission,         \* the browser: TRUE when microphone use is granted
  permissionsApi,        \* the browser: TRUE when navigator.permissions answers
  isListening,           \* useState
  isSpeaking,            \* useState
  assistantStarted,      \* useState
  conversationId,        \* useState: TRUE when set, FALSE for null
  activated,             \* useState
  recognitionRef,        \* useRef: index of the current SpeechRecognition
  isRecognitionActive,   \* useRef
  isStartingRecognition, \* useRef
  rec,                   \* the SpeechRecognition objects: index -> state
  recClosure,            \* the onResult each recognizer's onresult calls
  synth,                 \* speechSynthesis: the utterance being spoken
  synthEvents,           \* cancelled utterances whose event is still to fire
  audio,                 \* the Audio element: what it is playing
  ttsFetch,              \* TTS requests in flight
  timers,                \* pending setTimeout(startListening, 500), by origin
  permQ,                 \* auto-start effects awaiting the permission query
  convPending,           \* the conversation insert is in flight
  dispatches,            \* processUserInput calls in flight
  messages,              \* the rows of the messages table, oldest first
  obs,                   \* what the last event was given and did
  arg,                   \* the arguments of a helper called on its own
  ret                    \* what that call returned

componentVars ==
  <<voiceModel, openAiApiKey, activationPhrase, model, micPermission,
    permissionsApi, isListening,
    isSpeaking,
    assistantStarted, conversationId, activated, recognitionRef,
    isRecognitionActive, isStartingRecognition, rec, recClosure, synth,
    synthEvents, audio, ttsFetch, timers, permQ, convPending, dispatches,
    messages, obs>>

vars == <<componentVars, arg, ret>>

\* No helper is called on its own.
NoCall == [fn |-> "none"]

VoiceModels == {"browser", "openai-tts", "gemini-tts"}

\* The state as one value, so that the calls of a handler compose.
Cur ==
  [voiceModel |-> voiceModel, openAiApiKey |-> openAiApiKey,
   activationPhrase |-> activationPhrase, model |-> model,
   micPermission |-> micPermission, permissionsApi |-> permissionsApi,
   isListening |-> isListening, isSpeaking |-> isSpeaking,
   assistantStarted |-> assistantStarted, conversationId |-> conversationId,
   activated |-> activated, recognitionRef |-> recognitionRef,
   isRecognitionActive |-> isRecognitionActive,
   isStartingRecognition |-> isStartingRecognition,
   rec |-> rec, recClosure |-> recClosure, synth |-> synth,
   synthEvents |-> synthEvents, audio |-> audio, ttsFetch |-> ttsFetch,
   timers |-> timers, permQ |-> permQ, convPending |-> convPending,
   dispatches |-> dispatches, messages |-> messages, trace |-> <<>>]

\* The calls a handler makes are logged in calling order.
Log(s, call) == [s EXCEPT !.trace = Append(@, call)]

\* What onSpeechEnd reads of the render that created it (deps of line 296).
SpeechEndClosure(s) ==
  [assistantStarted |-> s.assistantStarted, isListening |-> s.isListening]

\* What onRecognitionResult reads of the render that created it: activated,
\* and through processUserInput and speak of that render, conversationId and
\* that render's onSpeechEnd.
ResultClosure(s) ==
  [activated |-> s.activated, conversationId |-> s.conversationId,
   cb |-> SpeechEndClosure(s)]

NoCb == [assistantStarted |-> FALSE, isListening |-> FALSE]
Silent == [kind |-> "none", cb |-> NoCb, late |-> FALSE]
Sound(kind, cb, late) == [kind |-> kind, cb |-> cb, late |-> late]

NoObs ==
  [op |-> "none", raw |-> <<>>, closureActivated |-> FALSE,
   preActivated |-> FALSE, prePlayback |-> FALSE, preCapture |-> FALSE,
   preDispatches |-> 0, trace |-> <<>>, cause |-> "none",
   preRecognitionActive |-> FALSE]

Recognizers == 0..1

CaptureActive == \E g \in Recognizers : rec[g] = "capturing"
PlaybackActive == synth.kind # "none" \/ audio.kind # "none"

\* What a step that may start capture leaves in obs: which step it was,
\* what scheduled it, and whether playback and capture were active before.
StartObs(op, cause) ==
  [NoObs EXCEPT !.op = op, !.cause = cause, !.prePlayback = PlaybackActive,
                !.preCapture = CaptureActive]

(***************************************************************************)
(* The recognition callbacks of VoiceAssistant (onError, onStart, onEnd of *)
(* useSpeechRecognition).                                                  *)
(***************************************************************************)
onRecognitionError(s) == [s EXCEPT !.isListening = FALSE]

onRecognitionStart(s) == [s EXCEPT !.isListening = TRUE]

onRecognitionEnd(s) == [s EXCEPT !.isListening = FALSE]

(***************************************************************************)
(* useSpeechRecognition.                                                   *)
(***************************************************************************)
\* SpeechRecognition.start(): a recognizer that has ended starts; one that
\* was started and has not ended yet throws InvalidStateError.
CanStart(st) == st = "idle"

\* A started recognizer captures when the microphone is granted; when it is
\* not, it is "denied": its error event (not-allowed) and its end event
\* follow.
AfterStart(granted) == IF granted THEN "capturing" ELSE "denied"

\* SpeechRecognition.stop(): the recognizer stops capturing ("stopping"): it
\* may still return a result for the audio it has received, and its end
\* event follows.  A recognizer without the microphone has no audio.
AfterStop(st) ==
  IF st = "capturing" THEN "stopping"
  ELSE IF st = "denied" THEN "ending"
  ELSE st

\* The start event of the recognizer (onstart, lines 85-88) repeats the two
\* assignments that follow start() here; it is taken with the call.
startListening(s0) ==
  LET s == Log(s0, "startListening") IN
  IF ~s.isRecognitionActive /\ ~s.isStartingRecognition
  THEN IF CanStart(s.rec[s.recognitionRef])
       THEN onRecognitionStart(
              [s EXCEPT !.rec[s.recognitionRef] = AfterStart(s.micPermission),
                        !.isRecognitionActive = TRUE])
       ELSE Log(s, "console.warn")
  ELSE s

\* stopListening without the test of isRecognitionActive.
stopListeningUnguarded(s0) ==
  LET s == Log(s0, "stopListening") IN
  [s EXCEPT !.rec[s.recognitionRef] = AfterStop(@),
            !.isRecognitionActive = FALSE]

stopListening(s0) ==
  LET s == Log(s0, "stopListening") IN
  IF s.isRecognitionActive
  THEN [s EXCEPT !.rec[s.recognitionRef] = AfterStop(@),
                 !.isRecognitionActive = FALSE]
  ELSE s

(***************************************************************************)
(* The synthesis callbacks of VoiceAssistant.                              *)
(***************************************************************************)
\* cb: the assistantStarted and isListening of the render that created this
\* onSpeechEnd.
onSpeechEnd(s0, cb) ==
  LET s == Log(s0, "onSpeechEnd") IN
  [s EXCEPT !.isSpeaking = FALSE,
            !.timers = IF cb.assistantStarted /\ ~cb.isListening
                       THEN @ (+) SetToBag({"onSpeechEnd"}) ELSE @]

\* onSpeechError without the onSpeechEnd() of its last line.
onSpeechErrorLogOnly(s0, cb, error) ==
  LET s == Log(s0, "onSpeechError") IN
  IF error = "interrupted" THEN onSpeechEnd(s, cb)
  ELSE Log(s, "showError")

\* onSpeechError without the return of its first branch.
onSpeechErrorNoReturn(s0, cb, error) ==
  LET s == Log(s0, "onSpeechError") IN
  IF error = "interrupted"
  THEN onSpeechEnd(Log(onSpeechEnd(s, cb), "showError"), cb)
  ELSE onSpeechEnd(Log(s, "showError"), cb)

onSpeechError(s0, cb, error) ==
  LET s == Log(s0, "onSpeechError") IN
  IF error = "interrupted" THEN onSpeechEnd(s, cb)
  ELSE onSpeechEnd(Log(s, "showError"), cb)

\* The two callbacks useSpeechSynthesis is given (line 311).
onEndCallback(s, cb) == onSpeechEnd(Log(s, "onEndCallback"), cb)

onErrorCallback(s, cb, error) ==
  onSpeechError(Log(s, "onErrorCallback"), cb, error)

(***************************************************************************)
(* useSpeechSynthesis.                                                     *)
(***************************************************************************)
\* speechSynthesis.cancel(): the utterance is dropped and its error
\* ("interrupted") or end event is still to be delivered.
cancel(s) ==
  [s EXCEPT !.synth = Silent,
            !.synthEvents = @ (+) SetToBag({s.synth.cb})]

\* audio.pause(); audio.currentTime = 0: no event follows.
pause(s) == [s EXCEPT !.audio = Silent]

\* The two statements speak and stopSpeaking share (lines 134-140, 206-212).
stopOngoing(s) ==
  LET s1 == IF s.synth.kind # "none" THEN cancel(s) ELSE s
  IN  IF s1.audio.kind # "none" THEN pause(s1) ELSE s1

stopSpeaking(s) == stopOngoing(Log(s, "stopSpeaking"))

\* speak setting isSpeaking when it starts a playback.
speakSettingIsSpeaking(s, text, cb, late) ==
  IF text = "" THEN s
  ELSE
    LET s1 == stopOngoing(Log(s, "speak"))
    IN  IF s1.voiceModel = "browser"
        THEN [s1 EXCEPT !.synth = Sound(text, cb, late), !.isSpeaking = TRUE]
        ELSE IF s1.voiceModel = "openai-tts" /\ s1.openAiApiKey
        THEN [s1 EXCEPT !.ttsFetch = @ (+) SetToBag({Sound(text, cb, late)}),
                        !.isSpeaking = TRUE]
        ELSE IF s1.voiceModel = "gemini-tts"
        THEN onEndCallback(onErrorCallback(s1, cb, "gemini"), cb)
        ELSE onEndCallback(onErrorCallback(s1, cb, "unsupported"), cb)

\* text: "" or the kind of sentence spoken ("confirm", "mic", "reply"); cb: the closure of the onSpeechEnd this speak was created
\* with; late: the speech answers a dispatch a stop phrase came after.
speak(s, text, cb, late) ==
  IF text = "" THEN s
  ELSE
    LET s1 == stopOngoing(Log(s, "speak"))
    IN  IF s1.voiceModel = "browser"
        THEN [s1 EXCEPT !.synth = Sound(text, cb, late)]
        ELSE IF s1.voiceModel = "openai-tts" /\ s1.openAiApiKey
        THEN [s1 EXCEPT !.ttsFetch = @ (+) SetToBag({Sound(text, cb, late)})]
        ELSE IF s1.voiceModel = "gemini-tts"
        THEN onEndCallback(onErrorCallback(s1, cb, "gemini"), cb)
        ELSE onEndCallback(onErrorCallback(s1, cb, "unsupported"), cb)

(***************************************************************************)
(* processUserInput and onRecognitionResult.                               *)
(***************************************************************************)
\* A call of processUserInput in flight.  pc: the await it is at.  The
\* fields after cb record facts about the call for the properties below:
\* resp, what fetchOpenAIResponse returned; late, a stop phrase was handled
\* after the call began; requests, the chat-completion requests sent for it.
Dispatch(text, cb) ==
  [pc |-> "insertUser", text |-> text, cb |-> cb, resp |-> "", late |-> FALSE,
   requests |-> 0]

\* cl: the closure of the onRecognitionResult that called.
processUserInput(s0, cl, inputText) ==
  LET s == Log(s0, "processUserInput") IN
  IF ~cl.conversationId
  THEN Log(s, "showError")
  ELSE [s EXCEPT !.dispatches = Append(@, Dispatch(inputText, cl.cb))]

\* onRecognitionResult with the two calls of its last branch exchanged.
onRecognitionResultDispatchFirst(s, cl, text) ==
  IF includes(text, StopPhrase)
  THEN stopSpeaking(stopListening(s))
  ELSE IF ~cl.activated
  THEN IF includes(text, toLowerCase(s.activationPhrase))
       THEN speak([s EXCEPT !.activated = TRUE], "confirm", cl.cb, FALSE)
       ELSE s
  ELSE stopListening(processUserInput(s, cl, text))

\* onRecognitionResult comparing with the phrase as configured.
onRecognitionResultPhraseAsIs(s, cl, text) ==
  IF includes(text, StopPhrase)
  THEN stopSpeaking(stopListening(s))
  ELSE IF ~cl.activated
  THEN IF includes(text, s.activationPhrase)
       THEN speak([s EXCEPT !.activated = TRUE], "confirm", cl.cb, FALSE)
       ELSE s
  ELSE processUserInput(stopListening(s), cl, text)

onRecognitionResult(s, cl, text) ==
  IF includes(text, StopPhrase)
  THEN stopSpeaking(stopListening(s))
  ELSE IF ~cl.activated
  THEN IF includes(text, toLowerCase(s.activationPhrase))
       THEN speak([s EXCEPT !.activated = TRUE], "confirm", cl.cb, FALSE)
       ELSE s
  ELSE processUserInput(stopListening(s), cl, text)

\* recognitionRef.current.onresult
onresult(s, cl, raw) ==
  onRecognitionResult(s, cl, toLowerCase(trim(raw)))

(***************************************************************************)
(* Rendering: the effects whose dependencies changed between the state     *)
(* before a handler (old) and the state it left (s).                       *)
(***************************************************************************)
\* useSpeechRecognition's effect (lines 67-109).  Of its dependencies only
\* onResult changes, when activated does: the cleanup stops the current
\* recognizer and the body creates the next one, whose onresult calls the
\* onRecognitionResult of this render.
recognitionEffect(old, s) ==
  IF old.activated # s.activated /\ s.recognitionRef + 1 \in Recognizers
  THEN LET s1 == stopListening(s)
           g == s.recognitionRef + 1
       IN  [s1 EXCEPT !.recognitionRef = g,
                      !.rec[g] = "idle",
                      !.recClosure[g] = ResultClosure(s)]
  ELSE s

\* The effect that creates the conversation (lines 314-334); the workspace
\* is loaded before the component is mounted.
createConversation(old, s) ==
  IF /\ \/ old.assistantStarted # s.assistantStarted
        \/ old.conversationId # s.conversationId
     /\ s.assistantStarted /\ ~s.conversationId
  THEN [s EXCEPT !.convPending = TRUE]
  ELSE s

\* The auto-start effect without speak among its dependencies.
autoStartEffectWithoutSpeak(old, s) ==
  IF /\ \/ old.assistantStarted # s.assistantStarted
        \/ old.conversationId # s.conversationId
     /\ s.assistantStarted /\ s.conversationId
  THEN [s EXCEPT !.permQ = @ (+) SetToBag({SpeechEndClosure(s)})]
  ELSE s

\* The auto-start effect (lines 337-357).  speak is a dependency, and speak
\* is a new function whenever onSpeechEnd is, that is whenever
\* assistantStarted or isListening changed.
autoStartEffect(old, s) ==
  IF /\ \/ old.assistantStarted # s.assistantStarted
        \/ old.conversationId # s.conversationId
        \/ old.isListening # s.isListening
     /\ s.assistantStarted /\ s.conversationId
  THEN [s EXCEPT !.permQ = @ (+) SetToBag({SpeechEndClosure(s)})]
  ELSE s

Render(old, s) ==
  autoStartEffect(old, createConversation(old, recognitionEffect(old, s)))

Bounded(s) ==
  /\ BagCardinality(s.timers) <= MaxTimers
  /\ BagCardinality(s.permQ) <= MaxPending
  /\ BagCardinality(s.synthEvents) <= MaxPending
  /\ BagCardinality(s.ttsFetch) <= MaxPending
  /\ Len(s.dispatches) <= MaxDispatches
  /\ Len(s.messages) <= MaxTurns

\* The handler left state s: React renders, and the variables take the
\* result r.
Commit(s, o) ==
  \E r \in {Render(Cur, s)} :
  /\ Bounded(r)
  /\ voiceModel' = r.voiceModel
  /\ micPermission' = r.micPermission
  /\ permissionsApi' = r.permissionsApi
  /\ openAiApiKey' = r.openAiApiKey
  /\ activationPhrase' = r.activationPhrase
  /\ model' = r.model
  /\ isListening' = r.isListening
  /\ isSpeaking' = r.isSpeaking
  /\ assistantStarted' = r.assistantStarted
  /\ conversationId' = r.conversationId
  /\ activated' = r.activated
  /\ recognitionRef' = r.recognitionRef
  /\ isRecognitionActive' = r.isRecognitionActive
  /\ isStartingRecognition' = r.isStartingRecognition
  /\ rec' = r.rec
  /\ recClosure' = r.recClosure
  /\ synth' = r.synth
  /\ synthEvents' = r.synthEvents
  /\ audio' = r.audio
  /\ ttsFetch' = r.ttsFetch
  /\ timers' = r.timers
  /\ permQ' = r.permQ
  /\ convPending' = r.convPending
  /\ dispatches' = r.dispatches
  /\ messages' = r.messages
  /\ obs' = [o EXCEPT !.trace = s.trace]
  /\ UNCHANGED <<arg, ret>>

(***************************************************************************)
(* Initial state: the component is mounted with its props, the first       *)
(* render has run and its effects have created the first recognizer.       *)
(***************************************************************************)
InitState(vm, key, phrase, mic, mdl) ==
  /\ voiceModel = vm
  /\ model = mdl
  /\ micPermission = mic
  /\ openAiApiKey = key
  /\ activationPhrase = phrase
  /\ isListening = FALSE
  /\ isSpeaking = FALSE
  /\ assistantStarted = FALSE
  /\ conversationId = FALSE
  /\ activated = FALSE
  /\ recognitionRef = 0
  /\ isRecognitionActive = FALSE
  /\ isStartingRecognition = FALSE
  /\ rec = [g \in Recognizers |-> IF g = 0 THEN "idle" ELSE "none"]
  /\ recClosure =
       [g \in Recognizers |->
          [activated |-> FALSE, conversationId |-> FALSE, cb |-> NoCb]]
  /\ synth = Silent
  /\ synthEvents = EmptyBag
  /\ audio = Silent
  /\ ttsFetch = EmptyBag
  /\ timers = EmptyBag
  /\ permQ = EmptyBag
  /\ convPending = FALSE
  /\ dispatches = <<>>
  /\ messages = <<>>
  /\ obs = NoObs

\* With the microphone granted the permission query and its fallback give
\* the same answer, so the Permissions API varies only without the grant.
Init ==
  \E vm \in VoiceModels, mic \in BOOLEAN, api \in BOOLEAN :
    /\ mic => api
    /\ InitState(vm, TRUE, PhraseAtivar, mic, "gpt-4o-mini")
    /\ permissionsApi = api
    /\ arg = NoCall /\ ret = NoCall

(***************************************************************************)
(* Actions: one per handler, event or resumed await.                       *)
(***************************************************************************)
RemoveAt(q, i) == SubSeq(q, 1, i - 1) \o SubSeq(q, i + 1, Len(q))

\* What resolves within the current turn of the event loop, before the
\* next event of the user, a recognizer, a timer, a playback or the network:
\* the permission query of an auto-start effect and the event of a cancelled
\* utterance.
Urgent == permQ # EmptyBag \/ synthEvents # EmptyBag

\* startAssistant arming the session by itself.
startAssistantArmed ==
  /\ ~Urgent
  /\ ~assistantStarted
  /\ Commit([Cur EXCEPT !.assistantStarted = TRUE, !.activated = TRUE], NoObs)

\* startAssistant with its button rendered at all times.
startAssistantAlways ==
  /\ ~Urgent
  /\ Commit([Cur EXCEPT !.assistantStarted = TRUE, !.activated = FALSE], NoObs)

\* The "Iniciar Assistente" button, rendered while assistantStarted is false.
startAssistant ==
  /\ ~Urgent
  /\ ~assistantStarted
  /\ Commit([Cur EXCEPT !.assistantStarted = TRUE, !.activated = FALSE], NoObs)

\* The "Iniciar Escuta" button.
ClickStartListening ==
  /\ ~Urgent
  /\ assistantStarted
  /\ ~(isListening \/ isSpeaking)
  /\ Commit(startListening(Cur), StartObs("clickStart", "user"))

\* The "Parar Escuta" button.
ClickStopListening ==
  /\ ~Urgent
  /\ assistantStarted
  /\ ~(~isListening \/ isSpeaking)
  /\ Commit(stopListening(Cur),
            [NoObs EXCEPT !.op = "clickStop",
                          !.preRecognitionActive = isRecognitionActive])

\* The insert into conversations resolves.
ConversationInserted ==
  /\ ~Urgent
  /\ convPending
  /\ \E error \in BOOLEAN :
       Commit([Cur EXCEPT !.convPending = FALSE,
                          !.conversationId = IF error THEN FALSE ELSE TRUE],
              NoObs)

\* The micPermission of the auto-start effect (lines 340-348): the state of
\* the permission when navigator.permissions answers, true when it is
\* missing or its query throws.
queryMicPermission(s) == IF s.permissionsApi THEN s.micPermission ELSE TRUE

\* The permission query of an auto-start effect resolves.
PermissionResolved ==
  \E cb \in BagToSet(permQ) :
    LET s == [Cur EXCEPT !.permQ = @ (-) SetToBag({cb})]
    IN  Commit(IF queryMicPermission(s) THEN startListening(s)
               ELSE speak(s, "mic", cb, FALSE), StartObs("autoStart", "effect"))

\* A setTimeout(startListening, 500) fires.
TimerFires ==
  /\ ~Urgent
  /\ \E origin \in BagToSet(timers) :
       Commit(startListening([Cur EXCEPT !.timers = @ (-) SetToBag({origin})]),
              StartObs("timer", origin))

\* recognitionRef.current.onend: the recognizer ended, by itself or after
\* stop() or an error.
onend(g) ==
  /\ ~Urgent
  /\ rec[g] \in {"capturing", "stopping", "ending"}
  /\ Commit(onRecognitionEnd([Cur EXCEPT !.rec[g] = "idle",
                                         !.isRecognitionActive = FALSE]),
            [NoObs EXCEPT !.op = "onend", !.cause = rec[g]])

\* recognitionRef.current.onerror; the end event follows.
onerror(g) ==
  /\ ~Urgent
  /\ rec[g] \in {"capturing", "denied"}
  /\ \E error \in IF rec[g] = "denied" THEN {"not-allowed"}
                  ELSE {"aborted", "no-speech"} :
       LET s1 == onRecognitionError([Cur EXCEPT !.rec[g] = "ending",
                                                !.isRecognitionActive = FALSE])
       IN  Commit([s1 EXCEPT !.timers = IF error # "aborted"
                                        THEN @ (+) SetToBag({"onerror"})
                                        ELSE @],
                  [NoObs EXCEPT !.op = "onerror", !.cause = rec[g]])

\* The dispatches in flight when a stop phrase is handled are marked.
MarkLate(s, text) ==
  IF includes(text, StopPhrase)
  THEN [s EXCEPT !.dispatches = [i \in 1..Len(@) |-> [@[i] EXCEPT !.late = TRUE]]]
  ELSE s

\* A recognizer delivers a final transcript to its onresult: while it
\* captures, or once after stop() for the audio it had received.
RecognizerResult(g, raw) ==
  /\ ~Urgent
  /\ rec[g] \in {"capturing", "stopping"}
  /\ LET s == onresult([Cur EXCEPT !.rec[g] = IF @ = "stopping" THEN "ending"
                                              ELSE @],
                       recClosure[g], raw) IN
     Commit(MarkLate(s, toLowerCase(trim(raw))),
            [op |-> "result", raw |-> raw,
             closureActivated |-> recClosure[g].activated,
             preActivated |-> activated, prePlayback |-> PlaybackActive,
             preCapture |-> CaptureActive,
             preDispatches |-> Len(dispatches), trace |-> s.trace,
             cause |-> "none", preRecognitionActive |-> FALSE])

\* What the end of a playback leaves in obs: that a reply was played to its
\* end, or nothing.
PlaybackObs(snd, error) ==
  IF snd.kind = "reply" /\ ~error THEN [NoObs EXCEPT !.op = "replyEnded"]
  ELSE NoObs

\* utterance.onend, or utterance.onerror with an error of the synthesizer.
UtteranceEnds ==
  /\ ~Urgent
  /\ synth.kind # "none"
  /\ \E error \in BOOLEAN :
       LET s == [Cur EXCEPT !.synth = Silent]
       IN  Commit(IF error THEN onErrorCallback(s, synth.cb, "synthesis-failed")
                  ELSE onEndCallback(s, synth.cb), PlaybackObs(synth, error))

\* The event of a cancelled utterance is delivered.
CancelledUtteranceEvent ==
  \E cb \in BagToSet(synthEvents) :
    Commit(onErrorCallback([Cur EXCEPT !.synthEvents = @ (-) SetToBag({cb})],
                           cb, "interrupted"),
           [NoObs EXCEPT !.op = "cancelled"])

\* What follows the request to the TTS endpoint: the audio plays; the
\* response is not ok, or the request throws; or the promise of audio.play()
\* (line 190, not awaited) is rejected.
TtsOutcomes == {"playing", "failed", "play rejected"}

\* The request to the TTS endpoint resolves (lines 154-193).  A rejected
\* audio.play() is outside the try block by the time it rejects: nothing is
\* called and nothing plays.
TtsFetched ==
  /\ ~Urgent
  /\ \E f \in BagToSet(ttsFetch), outcome \in TtsOutcomes :
       LET s == [Cur EXCEPT !.ttsFetch = @ (-) SetToBag({f})]
       IN  Commit(CASE outcome = "playing" -> [s EXCEPT !.audio = f]
                    [] outcome = "failed" ->
                         onErrorCallback(s, f.cb, "OpenAI TTS")
                    [] outcome = "play rejected" -> Log(s, "play rejected"),
                  NoObs)

\* audio.onended or audio.onerror
AudioEnds ==
  /\ ~Urgent
  /\ audio.kind # "none"
  /\ \E error \in BOOLEAN :
       LET s == [Cur EXCEPT !.audio = Silent]
       IN  Commit(IF error THEN onErrorCallback(s, audio.cb, "audio")
                  ELSE onEndCallback(s, audio.cb), PlaybackObs(audio, error))

\* UserMessageInserted going on after a failed insert.
UserMessageInsertedIgnoringError ==
  /\ ~Urgent
  /\ \E i \in DOMAIN dispatches, userMessageError \in BOOLEAN :
       /\ dispatches[i].pc = "insertUser"
       /\ Commit(IF userMessageError
                 THEN Log([Cur EXCEPT !.dispatches[i].pc = "fetchHistory"],
                          "showError")
                 ELSE [Cur EXCEPT !.dispatches[i].pc = "fetchHistory",
                                  !.messages =
                                     Append(@, [role |-> "user",
                                                content |-> dispatches[i].text])],
                 IF userMessageError
                 THEN [NoObs EXCEPT !.op = "userMessageError"] ELSE NoObs)

\* processUserInput resumes after the insert of the user message (lines
\* 403-407).
UserMessageInserted ==
  /\ ~Urgent
  /\ \E i \in DOMAIN dispatches, userMessageError \in BOOLEAN :
       /\ dispatches[i].pc = "insertUser"
       /\ Commit(IF userMessageError
                 THEN Log([Cur EXCEPT !.dispatches = RemoveAt(@, i)],
                          "showError")
                 ELSE [Cur EXCEPT !.dispatches[i].pc = "fetchHistory",
                                  !.messages =
                                     Append(@, [role |-> "user",
                                                content |-> dispatches[i].text])],
                 IF userMessageError
                 THEN [NoObs EXCEPT !.op = "userMessageError"] ELSE NoObs)

\* processUserInput after fetchOpenAIResponse returned response (lines
\* 413-416): speak(response), then the insert of the assistant message.
Respond(s, i, response) ==
  speak([s EXCEPT !.dispatches[i].pc = "insertAi",
                  !.dispatches[i].resp = response],
        "reply", s.dispatches[i].cb, s.dispatches[i].late)

\* fetchOpenAIResponse up to its await: without a key, or for gemini-pro, it
\* returns a sentence at once and sends nothing; otherwise it sends one
\* request.
fetchOpenAIResponse(s, i) ==
  IF ~s.openAiApiKey THEN Respond(s, i, "noKey")
  ELSE IF s.model = "gemini-pro" THEN Respond(s, i, "noGemini")
  ELSE [s EXCEPT !.dispatches[i].pc = "chat",
                 !.dispatches[i].requests = @ + 1]

\* processUserInput resumes after fetchMessageHistory and calls
\* fetchOpenAIResponse.
HistoryFetched ==
  /\ ~Urgent
  /\ \E i \in DOMAIN dispatches :
       /\ dispatches[i].pc = "fetchHistory"
       /\ Commit(fetchOpenAIResponse(Cur, i), NoObs)

\* ResponseFetched sending the request again after a failure.
ResponseFetchedRetry ==
  /\ ~Urgent
  /\ \E i \in DOMAIN dispatches, response \in {"reply", "apology"} :
       /\ dispatches[i].pc = "chat"
       /\ Commit(IF response = "apology" /\ dispatches[i].requests < 2
                 THEN [Cur EXCEPT !.dispatches[i].requests = @ + 1]
                 ELSE Respond(Cur, i, response), NoObs)

\* The chat-completion request resolves and fetchOpenAIResponse returns:
\* "reply", the text of the model; or "apology", one of the sentences it
\* returns for a status that is not ok, for an exception, and for a body
\* without text.
ResponseFetched ==
  /\ ~Urgent
  /\ \E i \in DOMAIN dispatches, response \in {"reply", "apology"} :
       /\ dispatches[i].pc = "chat"
       /\ Commit(Respond(Cur, i, response), NoObs)

\* processUserInput resumes after the insert of the assistant message.
AssistantMessageInserted ==
  /\ ~Urgent
  /\ \E i \in DOMAIN dispatches, aiMessageError \in BOOLEAN :
       /\ dispatches[i].pc = "insertAi"
       /\ Commit([Cur EXCEPT !.dispatches = RemoveAt(@, i),
                             !.messages =
                                IF aiMessageError THEN @
                                ELSE Append(@, [role |-> "assistant",
                                                content |-> <<dispatches[i].resp>>])],
                 NoObs)

Next ==
  \/ startAssistant
  \/ ClickStartListening
  \/ ClickStopListening
  \/ ConversationInserted
  \/ PermissionResolved
  \/ TimerFires
  \/ \E g \in Recognizers : onend(g)
  \/ \E g \in Recognizers : onerror(g)
  \/ \E g \in Recognizers, raw \in Transcripts : RecognizerResult(g, raw)
  \/ UtteranceEnds
  \/ CancelledUtteranceEvent
  \/ TtsFetched
  \/ AudioEnds
  \/ UserMessageInserted
  \/ HistoryFetched
  \/ ResponseFetched
  \/ AssistantMessageInserted

Spec == Init /\ [][Next]_vars

\* The same, with what the browser and the network owe: a pending promise
\* resolves, a timer fires, a stopped or failed recognizer ends, a playback
\* ends, a request resolves.  The user and the errors of the recognizer are
\* free.
Fairness ==
  /\ WF_vars(ConversationInserted)
  /\ WF_vars(PermissionResolved)
  /\ WF_vars(TimerFires)
  /\ \A g \in Recognizers : WF_vars(rec[g] # "capturing" /\ onend(g))
  /\ WF_vars(UtteranceEnds)
  /\ WF_vars(CancelledUtteranceEvent)
  /\ WF_vars(TtsFetched)
  /\ WF_vars(AudioEnds)
  /\ WF_vars(UserMessageInserted)
  /\ WF_vars(HistoryFetched)
  /\ WF_vars(ResponseFetched)
  /\ WF_vars(AssistantMessageInserted)

SpecLive == Init /\ [][Next]_vars /\ Fairness

(***************************************************************************)
(* The same component in a browser that refuses the microphone: every      *)
(* start of a recognizer is answered by its error event (not-allowed) and  *)
(* its end event.  The browser owes those events, the timers, the          *)
(* promises and the ends of the playbacks; the user is free.               *)
(***************************************************************************)
InitDenied ==
  \E vm \in VoiceModels, api \in BOOLEAN :
    /\ InitState(vm, TRUE, PhraseAtivar, FALSE, "gpt-4o-mini")
    /\ permissionsApi = api
    /\ arg = NoCall /\ ret = NoCall

NextDenied ==
  \/ startAssistant
  \/ ClickStartListening
  \/ ClickStopListening
  \/ ConversationInserted
  \/ PermissionResolved
  \/ TimerFires
  \/ \E g \in Recognizers : onend(g)
  \/ \E g \in Recognizers : onerror(g)
  \/ UtteranceEnds
  \/ CancelledUtteranceEvent
  \/ TtsFetched
  \/ AudioEnds

FairnessDenied ==
  /\ WF_vars(ConversationInserted)
  /\ WF_vars(PermissionResolved)
  /\ WF_vars(TimerFires)
  /\ \A g \in Recognizers : WF_vars(onend(g))
  /\ \A g \in Recognizers : WF_vars(onerror(g))
  /\ WF_vars(UtteranceEnds)
  /\ WF_vars(CancelledUtteranceEvent)
  /\ WF_vars(TtsFetched)
  /\ WF_vars(AudioEnds)

SpecDenied == InitDenied /\ [][NextDenied]_vars /\ FairnessDenied

(***************************************************************************)
(* The gate: the same component, fed every transcript of at most MaxLen    *)
(* characters over GateChars, for several activation phrases.  The         *)
(* microphone is granted, the voice is the browser's, and the awaits of    *)
(* processUserInput stay pending.                                          *)
(***************************************************************************)
GateChars == {"a", "A", "b", " "}

RECURSIVE StringsUpTo(_)
StringsUpTo(n) ==
  IF n = 0 THEN {<<>>}
  ELSE LET shorter == StringsUpTo(n - 1)
       IN  shorter \cup {Append(w, c) : w \in shorter, c \in GateChars}

GateTranscripts == StringsUpTo(MaxLen) \cup {TActivate, TStop}

\* "a", "A", "aB", " a", "Ativar"
GatePhrases ==
  {<<"a">>, <<"A">>, <<"a", "B">>, <<" ", "a">>, PhraseAtivar}

InitGate ==
  \E phrase \in GatePhrases :
    /\ InitState("browser", TRUE, phrase, TRUE, "gpt-4o-mini")
    /\ permissionsApi = TRUE
    /\ arg = NoCall /\ ret = NoCall

NextGate ==
  \/ startAssistant
  \/ ConversationInserted
  \/ PermissionResolved
  \/ \E g \in Recognizers : onend(g)
  \/ \E g \in Recognizers, raw \in GateTranscripts : RecognizerResult(g, raw)
  \/ UtteranceEnds
  \/ CancelledUtteranceEvent

SpecGate == InitGate /\ [][NextGate]_vars

(***************************************************************************)
(* The same component configured without a key, or with the chat model     *)
(* gemini-pro: fetchOpenAIResponse sends no request, so none resolves.     *)
(***************************************************************************)
Models == {"gpt-4o-mini", "gemini-pro"}

InitConfig ==
  \E vm \in VoiceModels, key \in BOOLEAN, mdl \in Models :
    /\ ~key \/ mdl = "gemini-pro"
    /\ InitState(vm, key, PhraseAtivar, TRUE, mdl)
    /\ permissionsApi = TRUE
    /\ arg = NoCall /\ ret = NoCall

NextConfig ==
  \/ startAssistant
  \/ ClickStartListening
  \/ ClickStopListening
  \/ ConversationInserted
  \/ PermissionResolved
  \/ TimerFires
  \/ \E g \in Recognizers : onend(g)
  \/ \E g \in Recognizers : onerror(g)
  \/ \E g \in Recognizers, raw \in Transcripts : RecognizerResult(g, raw)
  \/ UtteranceEnds
  \/ CancelledUtteranceEvent
  \/ TtsFetched
  \/ AudioEnds
  \/ UserMessageInserted
  \/ HistoryFetched
  \/ AssistantMessageInserted

SpecConfig == InitConfig /\ [][NextConfig]_vars


(***************************************************************************)
(* The helpers of processUserInput, called on their own with every input   *)
(* of a bounded set.                                                       *)
(***************************************************************************)
\* The rows of the messages table, in the order of created_at: row i was
\* created at time i and holds text i.
Conversations == 1..2
Roles == {"user", "assistant"}

RECURSIVE StoresUpTo(_)
StoresUpTo(n) ==
  IF n = 0 THEN {<<>>}
  ELSE LET shorter == StoresUpTo(n - 1)
       IN  shorter \cup
           {Append(st, [conversation_id |-> c, role |-> r,
                        content |-> [text |-> Len(st) + 1]]) :
              st \in shorter, c \in Conversations, r \in Roles}

Reverse(s) == [i \in 1..Len(s) |-> s[Len(s) + 1 - i]]

\* selectLatest with the order ascending.
selectOldest(store, id, limit) ==
  LET rows == SelectSeq(store, LAMBDA r : r.conversation_id = id)
  IN  Reverse(SubSeq(rows, 1, IF limit < Len(rows) THEN limit ELSE Len(rows)))

\* .eq("conversation_id", id).order("created_at", {ascending: false})
\* .limit(limit)
selectLatest(store, id, limit) ==
  LET rows == Reverse(SelectSeq(store, LAMBDA r : r.conversation_id = id))
  IN  SubSeq(rows, 1, IF limit < Len(rows) THEN limit ELSE Len(rows))

\* fetchMessageHistory reading a limit of 0 as no limit.
fetchMessageHistoryZeroUnlimited(store, id, limit, error) ==
  IF error THEN <<>>
  ELSE LET data == selectLatest(store, id, IF limit = 0 THEN Len(store) ELSE limit)
       IN  Reverse([i \in 1..Len(data) |->
                      [role |-> data[i].role, content |-> data[i].content.text]])

\* fetchMessageHistory without the final reverse().
fetchMessageHistoryNewestFirst(store, id, limit, error) ==
  IF limit = 0 THEN <<>>
  ELSE IF error THEN <<>>
  ELSE LET data == selectLatest(store, id, limit)
       IN  [i \in 1..Len(data) |->
              [role |-> data[i].role, content |-> data[i].content.text]]

\* error: the query fails.
fetchMessageHistory(store, id, limit, error) ==
  IF limit = 0 THEN <<>>
  ELSE IF error THEN <<>>
  ELSE LET data == selectLatest(store, id, limit)
       IN  Reverse([i \in 1..Len(data) |->
                      [role |-> data[i].role, content |-> data[i].content.text]])

\* The body of a response whose status is not ok, as response.json() sees
\* it: not JSON (json() rejects), the JSON null, or an object whose error
\* may be missing or null, and whose error.message may be missing.
ErrorMessages == {"", "Incorrect API key provided"}
StatusTexts == {"Unauthorized", "Bad Gateway"}
ErrorBodies ==
  {[kind |-> "notJson"], [kind |-> "null"], [kind |-> "object"],
   [kind |-> "object", error |-> [null |-> TRUE]],
   [kind |-> "object", error |-> [other |-> "x"]]}
  \cup {[kind |-> "object", error |-> [message |-> m]] : m \in ErrorMessages}

HasField(r, f) == f \in DOMAIN r

\* errorData.error?.message, "undefined" when it is missing.
errorMessageOf(body) ==
  IF ~HasField(body, "error") THEN "undefined"
  ELSE IF ~HasField(body.error, "message") THEN "undefined"
  ELSE body.error.message

\* What fetchOpenAIResponse shows for a response that is not ok (lines
\* 465-479): the toast, as the sequence of its parts.
notOkToast(body, statusText) ==
  IF body.kind \in {"notJson", "null"}
  THEN <<"Erro na comunicação com a IA.">>
  ELSE LET message == errorMessageOf(body)
       IN  <<"Erro OpenAI: ",
             IF message \in {"undefined", ""} THEN statusText ELSE message>>

\* supabase.from("messages").insert(...) of processUserInput: the row is
\* the newest of the table.
insertMessage(store, id, role) ==
  Append(store, [conversation_id |-> id, role |-> role,
                 content |-> [text |-> Len(store) + 1]])

\* A prompt of the props: a text, the empty text, or undefined.
Prompts == {"undefined", "", "Seja breve."}

\* prompt || ""
OrEmpty(prompt) == IF prompt \in {"undefined", ""} THEN "" ELSE prompt

\* messagesForApi of fetchOpenAIResponse.
messagesForApi(systemPrompt, assistantPrompt, history, userMessage) ==
  <<[role |-> "system", content |-> OrEmpty(systemPrompt)],
    [role |-> "assistant", content |-> OrEmpty(assistantPrompt)]>>
  \o history
  \o <<[role |-> "user", content |-> userMessage]>>

\* dispatchPrompt with the history fetched before the insert of the user
\* message.
dispatchPromptHistoryFirst(store, id, conversationMemoryLength, error, systemPrompt, assistantPrompt) ==
  LET stored == insertMessage(store, id, "user")
      inputText == stored[Len(stored)].content.text
      currentHistory ==
        fetchMessageHistory(store, id, conversationMemoryLength, error)
  IN  [store |-> stored, inputText |-> inputText,
       currentHistory |-> currentHistory,
       messagesForApi |-> messagesForApi(systemPrompt, assistantPrompt,
                                         currentHistory, inputText)]

\* processUserInput from the insert of the user message to the request of
\* fetchOpenAIResponse, both awaits taken at once: the store after the
\* insert, currentHistory, and the messages of the request.
dispatchPrompt(store, id, conversationMemoryLength, error, systemPrompt, assistantPrompt) ==
  LET stored == insertMessage(store, id, "user")
      inputText == stored[Len(stored)].content.text
      currentHistory ==
        fetchMessageHistory(stored, id, conversationMemoryLength, error)
  IN  [store |-> stored, inputText |-> inputText,
       currentHistory |-> currentHistory,
       messagesForApi |-> messagesForApi(systemPrompt, assistantPrompt,
                                         currentHistory, inputText)]

HelperCalls ==
  {[fn |-> "fetchMessageHistory", store |-> st, id |-> c, limit |-> n,
    error |-> e] :
     st \in StoresUpTo(MaxStore), c \in Conversations, n \in 0..MaxLimit,
     e \in BOOLEAN}
  \cup {[fn |-> "notOk", body |-> b, statusText |-> s] :
          b \in ErrorBodies, s \in StatusTexts}
  \cup {[fn |-> "dispatchPrompt", store |-> st, id |-> c,
         conversationMemoryLength |-> n, error |-> e, systemPrompt |-> sp,
         assistantPrompt |-> ap] :
          st \in StoresUpTo(MaxStore), c \in Conversations, n \in 0..MaxLimit,
          e \in BOOLEAN, sp \in Prompts, ap \in Prompts}

InitHelpers ==
  /\ InitState("browser", TRUE, PhraseAtivar, TRUE, "gpt-4o-mini")
  /\ permissionsApi = TRUE
  /\ arg \in HelperCalls
  /\ ret = NoCall

CallFetchMessageHistory ==
  /\ arg.fn = "fetchMessageHistory"
  /\ ret = NoCall
  /\ ret' = [fn |-> arg.fn,
             value |-> fetchMessageHistory(arg.store, arg.id, arg.limit,
                                           arg.error)]
  /\ UNCHANGED <<componentVars, arg>>

CallNotOk ==
  /\ arg.fn = "notOk"
  /\ ret = NoCall
  /\ ret' = [fn |-> arg.fn, value |-> notOkToast(arg.body, arg.statusText)]
  /\ UNCHANGED <<componentVars, arg>>

CallDispatchPrompt ==
  /\ arg.fn = "dispatchPrompt"
  /\ ret = NoCall
  /\ ret' = [fn |-> arg.fn,
             value |-> dispatchPrompt(arg.store, arg.id,
                                      arg.conversationMemoryLength, arg.error,
                                      arg.systemPrompt, arg.assistantPrompt)]
  /\ UNCHANGED <<componentVars, arg>>

NextHelpers == CallFetchMessageHistory \/ CallNotOk \/ CallDispatchPrompt

SpecHelpers == InitHelpers /\ [][NextHelpers]_vars

(***************************************************************************)
(* Properties.                                                             *)
(***************************************************************************)
InFlight(d) == d.pc \in {"insertUser", "fetchHistory", "chat"}

\* The last event was an onresult whose transcript contains the stop phrase.
StopPhraseHeard ==
  obs.op = "result" /\ includes(toLowerCase(trim(obs.raw)), StopPhrase)

\* C1: capture (a recognizer capturing) and playback (an utterance being
\* spoken or the audio element playing) are never both active.
C1_MutualExclusion == ~(CaptureActive /\ PlaybackActive)

\* C2: while the confirmation of the activation is playing, capture is not
\* active.
C2_NoCaptureDuringConfirmation ==
  ~(CaptureActive /\ (synth.kind = "confirm" \/ audio.kind = "confirm"))

\* C3: right after a transcript with the stop phrase was handled, capture
\* and playback are inactive and activated is false.
C3_StopPhraseIdle ==
  StopPhraseHeard => ~CaptureActive /\ ~PlaybackActive /\ ~activated

\* C4: the reply of a dispatch that was pending when a stop phrase was
\* handled is never played.
C4_NoReplyAfterStop ==
  /\ ~(synth.kind = "reply" /\ synth.late)
  /\ ~(audio.kind = "reply" /\ audio.late)

\* C5: a transcript delivered while playback is active is not dispatched:
\* the onresult that received it leaves no new processUserInput call.
C5_NoSelfFeedback ==
  obs.op = "result" /\ obs.prePlayback => Len(dispatches) <= obs.preDispatches

\* C6: at most one processUserInput call is between its start and the
\* arrival of its chat-completion response.
C6_AtMostOneInFlight ==
  Cardinality({i \in DOMAIN dispatches : InFlight(dispatches[i])}) <= 1

\* C7: onRecognitionResult calls stopListening before processUserInput, and
\* a processUserInput call that has reached fetchOpenAIResponse has its user
\* message in the store.
C7_DispatchOrder ==
  /\ obs.op = "result" =>
       \A i \in DOMAIN obs.trace :
         obs.trace[i] = "processUserInput" =>
           \E j \in 1..(i - 1) : obs.trace[j] = "stopListening"
  /\ \A i \in DOMAIN dispatches :
       dispatches[i].pc = "chat" =>
         \E k \in DOMAIN messages :
           messages[k] = [role |-> "user", content |-> dispatches[i].text]

\* A dispatch has reached the chat-completion request.
C7_Witness == \E i \in DOMAIN dispatches : dispatches[i].pc = "chat"

\* C8: while a processUserInput call awaits persistence or the model,
\* capture is not active.
C8_NoCaptureDuringDispatch ==
  (\E i \in DOMAIN dispatches : InFlight(dispatches[i])) => ~CaptureActive

\* C9: a transcript that is blank after trim changes nothing: no dispatch,
\* capture as before, activated as before.
C9_EmptyIgnored ==
  obs.op = "result" /\ trim(obs.raw) = <<>> =>
    /\ Len(dispatches) = obs.preDispatches
    /\ CaptureActive = obs.preCapture
    /\ activated = obs.preActivated

\* The claim's side of C10, written without the operators of the model.
SameLetter(c, d) ==
  \/ c = d
  \/ \E i \in 1..Len(UpperCase) :
       {c, d} = {UpperCase[i], LowerCase[i]}

\* raw, between its first and its last character that is not a space,
\* contains phrase, letter case ignored.
ContainsIgnoringCase(raw, phrase) ==
  LET inked == {i \in 1..Len(raw) : raw[i] # " "}
  IN  \E lo \in inked, hi \in inked :
        /\ \A i \in inked : lo <= i /\ i <= hi
        /\ \E k \in lo..hi :
             /\ k + Len(phrase) - 1 <= hi
             /\ \A j \in 1..Len(phrase) : SameLetter(raw[k + j - 1], phrase[j])

\* C10: while not activated, a transcript without the stop phrase arms the
\* session if and only if it contains the activation phrase, letter case
\* ignored.
C10_ActivationMatching ==
  /\ obs.op = "result"
  /\ ~obs.preActivated
  /\ ~ContainsIgnoringCase(obs.raw, StopPhrase)
  => (activated <=> ContainsIgnoringCase(obs.raw, activationPhrase))

\* A transcript longer than the phrase, and in another letter case, armed
\* the session.
C10_Witness ==
  /\ obs.op = "result"
  /\ ~obs.preActivated
  /\ activated
  /\ Len(obs.raw) > Len(activationPhrase)
  /\ ~includes(obs.raw, activationPhrase)

\* The calls the handler of the last step made.
Called(call) == \E i \in DOMAIN obs.trace : obs.trace[i] = call

\* The last event was an onresult whose transcript has the activation phrase
\* and no stop phrase, delivered while activated was already true.
PhraseWhileActivated ==
  /\ obs.op = "result"
  /\ obs.preActivated
  /\ includes(toLowerCase(trim(obs.raw)), toLowerCase(activationPhrase))
  /\ ~includes(toLowerCase(trim(obs.raw)), StopPhrase)

\* C11: a transcript with the activation phrase, received while activated is
\* already true, leaves activated true, speaks no confirmation, and is handed
\* to processUserInput like any other transcript.
C11_ArmingIdempotent ==
  PhraseWhileActivated =>
    /\ activated
    /\ ~Called("speak")
    /\ Called("processUserInput")

\* C12: activated goes from false to true only in a step that is an onresult
\* whose onRecognitionResult saw activated false and whose transcript
\* contains the activation phrase; no other step sets it true.
C12_ActivatedOnlyByGate ==
  [][~activated /\ activated' =>
       /\ obs'.op = "result"
       /\ ~obs'.closureActivated
       /\ includes(toLowerCase(trim(obs'.raw)), toLowerCase(activationPhrase))]_vars

\* A transcript has armed a started session.
C12_Witness ==
  obs.op = "result" /\ ~obs.preActivated /\ activated /\ assistantStarted

\* The call has stored its user Turn, the model has answered it, and its
\* assistant Turn is still to be appended.
OwesAssistantTurn(d) == d.pc = "insertAi" /\ d.resp = "reply"

\* C13: the Turns of two exchanges whose chat completion succeeded do not
\* interleave: no two calls have both stored their user Turn while the
\* assistant Turn of each is still to be appended (the store would read
\* user, user, assistant, assistant).
C13_ExchangesDoNotInterleave ==
  Cardinality({i \in DOMAIN dispatches : OwesAssistantTurn(dispatches[i])}) <= 1

\* C14: whenever a reply has been played to its end while the session is
\* started and armed (and the microphone is granted), capture eventually
\* becomes active.
C14_ResumeAfterPlayback ==
  [](obs.op = "replyEnded" /\ assistantStarted /\ activated /\ micPermission
       => <>CaptureActive)

AssistantTurn(response) == [role |-> "assistant", content |-> <<response>>]

Stored(row) == \E k \in DOMAIN messages : messages[k] = row

\* C15: when the chat-completion call fails, no assistant Turn is stored for
\* the attempt: the sentence fetchOpenAIResponse returns for a failure is
\* never a row of messages.
C15_NoTurnForFailedCall == ~Stored(AssistantTurn("apology"))

Faulted ==
  /\ ~openAiApiKey
  /\ \/ \E i \in DOMAIN dispatches : dispatches[i].resp = "noKey"
     \/ Stored(AssistantTurn("noKey"))

\* C17: once a dispatch has found no API key, no step starts capture and no
\* step starts a playback.
C17_MissingKeyHolds ==
  [][Faulted => /\ CaptureActive' => CaptureActive
                /\ PlaybackActive' => PlaybackActive]_vars

\* C18: without a key, or for gemini-pro, fetchOpenAIResponse sends no
\* request, and the sentence it returns is neither spoken nor stored as an
\* assistant Turn.
C18_FailFast ==
  /\ \A i \in DOMAIN dispatches : dispatches[i].requests = 0
  /\ \A i \in DOMAIN dispatches :
       dispatches[i].resp \in {"noKey", "noGemini"} => ~PlaybackActive
  /\ ~Stored(AssistantTurn("noKey"))
  /\ ~Stored(AssistantTurn("noGemini"))

\* d is a part of the toast; the empty text is a part of every text.
PartOf(toast, d) == d = "" \/ \E i \in DOMAIN toast : toast[i] = d

\* The body is a JSON value that has error.message.
MessagePresent(body) ==
  /\ HasField(body, "error")
  /\ HasField(body.error, "message")

\* C19: the error shown for a response that is not ok contains error.message
\* of the body when the body has one, and the status text of the response
\* in every other case.
C19_ErrorText ==
  ret.fn = "notOk" =>
    PartOf(ret.value,
           IF MessagePresent(arg.body) THEN arg.body.error.message
           ELSE arg.statusText)

\* The times of the rows of the conversation asked for.
RowsAsked == {i \in DOMAIN arg.store : arg.store[i].conversation_id = arg.id}

\* C20: fetchMessageHistory returns at most limit Turns; they are rows of the
\* conversation, oldest first; no row of the conversation newer than a
\* returned one is left out; and when the query succeeds none of the limit
\* most recent is missing.
C20_MemoryBoundAndOrder ==
  ret.fn = "fetchMessageHistory" =>
    LET h == ret.value IN
    /\ Len(h) <= arg.limit
    /\ \A i \in DOMAIN h :
         /\ h[i].content \in RowsAsked
         /\ h[i].role = arg.store[h[i].content].role
    /\ \A i, j \in DOMAIN h : i < j => h[i].content < h[j].content
    /\ \A i \in DOMAIN h : \A k \in RowsAsked :
         k > h[i].content => \E j \in DOMAIN h : h[j].content = k
    /\ ~arg.error =>
         Len(h) = IF arg.limit < Cardinality(RowsAsked) THEN arg.limit
                  ELSE Cardinality(RowsAsked)

\* The conversation has more rows than the limit, and the limit is above one.
C20_Witness ==
  /\ ret.fn = "fetchMessageHistory"
  /\ ~arg.error
  /\ arg.limit > 1
  /\ Cardinality(RowsAsked) > arg.limit
  /\ Len(ret.value) = arg.limit

Min(a, b) == IF a < b THEN a ELSE b

\* The roles of a list of messages, in order.
RolesOf(ms) == [i \in DOMAIN ms |-> ms[i].role]

\* C21: with memory depth 0 the history is empty however many Turns are
\* stored, and the messages sent to the model are the system prompt, the
\* persona prompt and the current utterance, with no Turn of the history.
C21_DepthZeroNoHistory ==
  /\ ret.fn = "fetchMessageHistory" /\ arg.limit = 0 => ret.value = <<>>
  /\ ret.fn = "dispatchPrompt" /\ arg.conversationMemoryLength = 0 =>
       /\ ret.value.currentHistory = <<>>
       /\ RolesOf(ret.value.messagesForApi) = <<"system", "assistant", "user">>
       /\ ret.value.messagesForApi[3].content = ret.value.inputText

\* A dispatch with depth 0 in a conversation that has Turns stored.
C21_Witness ==
  /\ ret.fn = "dispatchPrompt"
  /\ arg.conversationMemoryLength = 0
  /\ ~arg.error
  /\ Cardinality(RowsAsked) >= 2
  /\ Len(ret.value.messagesForApi) = 3

\* The times of the rows of the conversation after the insert of the user
\* message.
RowsAfterInsert ==
  {i \in DOMAIN ret.value.store : ret.value.store[i].conversation_id = arg.id}

\* C22: for memory depth d the history of a dispatch is the 2 * d most
\* recent Turns of the conversation (all of them when there are fewer),
\* oldest first.
C22_WindowIsTwiceDepth ==
  ret.fn = "dispatchPrompt" /\ ~arg.error =>
    LET h == ret.value.currentHistory IN
    /\ Len(h) = Min(2 * arg.conversationMemoryLength,
                    Cardinality(RowsAfterInsert))
    /\ \A i, j \in DOMAIN h : i < j => h[i].content < h[j].content

\* The history of the dispatch ends with the Turn just appended.
EndsWithAppended ==
  LET h == ret.value.currentHistory IN
  /\ h # <<>>
  /\ h[Len(h)] = [role |-> "user", content |-> ret.value.inputText]

\* C23 as stated: after a Turn is appended, the history read right after
\* ends with that Turn.
C23_AppendThenRead == ret.fn = "dispatchPrompt" => EndsWithAppended

\* C23, amended: after a Turn is appended, the history read right after
\* ends with that Turn, when the memory depth is at least 1 and the query
\* succeeds.
C23_AppendThenReadWindowed ==
  /\ ret.fn = "dispatchPrompt"
  /\ arg.conversationMemoryLength >= 1
  /\ ~arg.error
  => EndsWithAppended

\* The Turn was appended to a conversation with more Turns than the depth,
\* and it is the last of the history.
C23_Witness ==
  /\ ret.fn = "dispatchPrompt"
  /\ arg.conversationMemoryLength >= 1
  /\ ~arg.error
  /\ Cardinality(RowsAsked) > arg.conversationMemoryLength
  /\ EndsWithAppended

\* C24: when a recognizer has ended while playback is active, the run of the
\* auto-start effect that follows does not start capture.
C24_NoRestartDuringPlayback ==
  [][obs.op = "onend" /\ PlaybackActive /\ obs'.op = "autoStart"
       => ~(CaptureActive' /\ ~CaptureActive)]_vars

\* C25: the restart timer of a recognizer error does not start capture while
\* playback is active.
C25_NoErrorRestartDuringPlayback ==
  obs.op = "timer" /\ obs.cause = "onerror" /\ obs.prePlayback
    => ~(CaptureActive /\ ~obs.preCapture)

\* A state without the log of calls.
StateOf(s) == [s EXCEPT !.trace = <<>>]

\* C26: startListening changes nothing while the recognizer is active or a
\* start is pending; and after a start the recognizer rejected
\* (InvalidStateError, the warning of line 50), isRecognitionActive is true
\* exactly when the current recognizer is capturing.
C26_StartGuard ==
  /\ isRecognitionActive \/ isStartingRecognition =>
       \A s \in {Cur} : StateOf(startListening(s)) = s
  /\ Called("console.warn") =>
       (rec[recognitionRef] = "capturing" <=> isRecognitionActive)

\* The number of times the handler of the last step made the call.
Count(call) == Cardinality({i \in DOMAIN obs.trace : obs.trace[i] = call})

Closures == [assistantStarted : BOOLEAN, isListening : BOOLEAN]

SynthesisErrors ==
  {"synthesis-failed", "OpenAI TTS", "audio", "gemini", "unsupported",
   "interrupted"}

\* C27: every failure notified to onErrorCallback reaches onSpeechEnd, and
\* leaves the state the normal end of the same playback leaves: isSpeaking
\* false and the same restart timer.
C27_FailureReachesSpeechEnd ==
  /\ \A i \in DOMAIN obs.trace :
       obs.trace[i] = "onErrorCallback" =>
         \E j \in DOMAIN obs.trace : j > i /\ obs.trace[j] = "onSpeechEnd"
  /\ \A s \in {Cur} : \A cb \in Closures :
       \A ended \in {StateOf(onEndCallback(s, cb))} :
         \A error \in SynthesisErrors :
           StateOf(onErrorCallback(s, cb, error)) = ended

\* A playback has failed and the restart of capture is scheduled.
C27_Witness ==
  /\ Called("onErrorCallback")
  /\ Called("showError")
  /\ Called("onSpeechEnd")
  /\ "onSpeechEnd" \in BagToSet(timers)

\* C28: stopSpeaking, and the two statements speak begins with, leave
\* neither an utterance nor the audio element playing and at most one event
\* for the cancelled utterance; and the handler of that event calls
\* onSpeechEnd at most once and adds at most one timer.
C28_CancelOnce ==
  /\ \A s0 \in {Cur} : \A s \in {stopSpeaking(s0), stopOngoing(s0)} :
       /\ s.synth = Silent /\ s.audio = Silent
       /\ BagCardinality(s.synthEvents) <=
            BagCardinality(synthEvents) + (IF synth.kind # "none" THEN 1 ELSE 0)
       /\ s.timers = timers
  /\ obs.op = "cancelled" => Count("onSpeechEnd") <= 1
  /\ \A s0 \in {Cur} : \A cb \in Closures :
       BagCardinality(onErrorCallback(s0, cb, "interrupted").timers)
         <= BagCardinality(timers) + 1

\* The event of a cancelled utterance was handled: onSpeechEnd ran and its
\* timer is pending.
C28_Witness ==
  /\ obs.op = "cancelled"
  /\ Count("onSpeechEnd") = 1
  /\ "onSpeechEnd" \in BagToSet(timers)

\* C29: the handler of a step notifies the controller of at most one
\* completion: it never calls both onEndCallback and onErrorCallback, nor one
\* of them twice.
C29_OneCompletionPerSpeak ==
  Count("onEndCallback") + Count("onErrorCallback") <= 1

\* C30: stopListening called while isRecognitionActive is false changes
\* nothing, and a second call right after a first changes nothing more.
C30_StopListeningIdempotent ==
  \A s \in {Cur} :
    /\ ~isRecognitionActive => StateOf(stopListening(s)) = s
    /\ StateOf(stopListening(stopListening(s))) = StateOf(stopListening(s))

\* Parar Escuta was clicked while isRecognitionActive was false, after a
\* stop that the recognizer has not yet answered with its end event.
C30_Witness ==
  /\ obs.op = "clickStop"
  /\ ~obs.preRecognitionActive
  /\ Called("stopListening")
  /\ \E g \in Recognizers : rec[g] = "stopping"

\* C35: once activated is true no step sets it to false, and once
\* assistantStarted is true no step sets it to false.
C35_MonotoneFlags ==
  [][/\ activated => activated'
     /\ assistantStarted => assistantStarted']_vars

\* A stop phrase was handled while the session was armed, and the session is
\* still started and armed.
C35_Witness ==
  StopPhraseHeard /\ obs.preActivated /\ activated /\ assistantStarted

\* C38: isSpeaking is false in every reachable state.
C38_NeverSpeaking == ~isSpeaking

\* Iniciar Escuta was clicked while a playback was active.
C38_Witness ==
  obs.op = "clickStart" /\ obs.prePlayback /\ Called("startListening")

\* The message is the current utterance, as a user message.
IsCurrentUtterance(m) == m.role = "user" /\ m.content = ret.value.inputText

NothingBegun ==
  /\ \A g \in Recognizers : rec'[g] = "capturing" => rec[g] = "capturing"
  /\ synth' \in {synth, Silent}
  /\ audio' \in {audio, Silent}
  /\ ttsFetch' = ttsFetch
  /\ timers' = timers
  /\ permQ' = permQ
  /\ messages' = messages
  /\ \A i \in DOMAIN dispatches' :
       \E j \in DOMAIN dispatches : dispatches'[i] = dispatches[j]

\* C37: a processUserInput call that has sent a chat-completion request has
\* its user Turn stored; and a step in which the insert of the user Turn
\* fails, or in which processUserInput finds no conversation, sends no
\* request, starts no playback, stores no Turn and starts no capture.
C37_PersistenceGate ==
  [][/\ \A i \in DOMAIN dispatches' :
          dispatches'[i].requests > 0 =>
            \E k \in DOMAIN messages' :
              messages'[k] = [role |-> "user", content |-> dispatches'[i].text]
     /\ obs'.op = "userMessageError" =>
          NothingBegun /\ Len(dispatches') = Len(dispatches) - 1
     /\ /\ obs'.op = "result"
        /\ \E i \in DOMAIN obs'.trace : obs'.trace[i] = "processUserInput"
        /\ Len(dispatches') = Len(dispatches)
        => NothingBegun]_vars

\* The insert of the user Turn has failed after onRecognitionResult stopped
\* capture: nothing is captured, played, pending or stored.
C37_Witness ==
  /\ obs.op = "userMessageError"
  /\ ~CaptureActive /\ ~PlaybackActive
  /\ dispatches = <<>> /\ messages = <<>>
  /\ timers = EmptyBag /\ ttsFetch = EmptyBag

\* The step is the end of a capture: the end event of a recognizer that was
\* capturing or had been stopped, or the error event of one that was
\* capturing.
CaptureEnds ==
  \/ obs'.op = "onend" /\ obs'.cause \in {"capturing", "stopping"}
  \/ obs'.op = "onerror" /\ obs'.cause = "capturing"

\* The auto-start effect has run and its startListening is about to be
\* called.
RestartPending ==
  /\ permQ # EmptyBag
  /\ micPermission

C33_SessionStart ==
  /\ CaptureActive => assistantStarted
  /\ obs.op = "autoStart" /\ Called("startListening") => conversationId
  /\ obs.op \in {"autoStart", "timer"} /\ Called("startListening")
       => micPermission
  /\ obs.op = "autoStart" /\ ~micPermission => Called("speak")
  /\ obs.op = "clickStart" => Called("startListening")

\* The step is a restart timer of a recognizer error calling startListening.
ErrorRestart == obs'.op = "timer" /\ obs'.cause = "onerror"

\* Nothing is pending: no timer, no permission query, no event of a cancelled
\* utterance, no request, no dispatch, no recognizer about to fire an event.
\* Only a click changes such a state.
Quiescent ==
  /\ timers = EmptyBag /\ permQ = EmptyBag /\ synthEvents = EmptyBag
  /\ ttsFetch = EmptyBag /\ dispatches = <<>> /\ ~convPending
  /\ \A g \in Recognizers : rec[g] \in {"none", "idle"}

\* The started assistant neither captures nor plays, and nothing is pending
\* that would change it.
Stalled == assistantStarted /\ ~CaptureActive /\ ~PlaybackActive /\ Quiescent

\* The last step took an error path of a playback: a failure was notified to
\* onErrorCallback (the event of a cancelled utterance is not a failure), or
\* audio.play() was rejected.
PlaybackFailed ==
  \/ Called("onErrorCallback") /\ obs.op # "cancelled"
  \/ Called("play rejected")

\* The last step took an early return of processUserInput: the conversation
\* is missing, or the insert of the user message failed.
InputDropped ==
  \/ obs.op = "userMessageError"
  \/ /\ obs.op = "result" /\ Called("processUserInput")
     /\ Len(dispatches) = obs.preDispatches

\* C32: a step that takes an error path and leaves the started assistant
\* with capture inactive, playback inactive and nothing pending has shown an
\* error to the user.
C32_NoSilentStall ==
  (PlaybackFailed \/ InputDropped) /\ Stalled => Called("showError")

\* The last step was a click on Iniciar Escuta or Parar Escuta.
Clicked == obs.op \in {"clickStart", "clickStop"}

\* C31: the restarts after recognizer errors are bounded: unless the user
\* keeps clicking, from some point on no restart timer of an error fires any
\* more.
C31_BoundedRetry == ([]<>Clicked) \/ <>[][~ErrorRestart]_vars
=============================================================================
